---- MODULE Spec2Model ----
(***************************************************************************)
(* A model of the acyclic-graph layer of the dag package: the walks, the   *)
(* reachability queries, Root and TransitiveReduction, run against the     *)
(* graph store they read adjacency from.                                   *)
(*                                                                         *)
(* Go ranges over a map in an unspecified order, so every `range` over a   *)
(* Set is a choice among all enumerations of that set.                     *)
(***************************************************************************)
EXTENDS Integers, Sequences, FiniteSets, TLC

\* ------------------------------------------------------------------------
\* Bounds of the model.
\* ------------------------------------------------------------------------

\* how many vertex values the callers hold
MaxValues == 4

\* how many edges the store is given before the queries run
MaxEdges == 5

\* how many vertices a caller puts in the start set of a walk
MaxStart == 1

\* how many edges may close a cycle
MaxBack == 1

\* how many vertices the graphs with cycles hold
MaxCyclic == 2

\* ------------------------------------------------------------------------
\* Vertex values, their identity and their display name.
\* ------------------------------------------------------------------------

\* the values that implement Hashable: two distinct values that are the
\* same logical vertex, both returning the same Hashcode()
Hashables == {11, 12}

\* the values that do not: their identity is the value itself
Plain == 1..MaxValues

Values == Plain \cup Hashables

IsHashable(v) == v \in Hashables

\* hashcode: the Hashcode() of a Hashable vertex, else the vertex itself
hashcode(v) == IF IsHashable(v) THEN 10 ELSE v

\* VertexName: the display name sorted walks order by (names compare as the
\* integers here).  Names are not identities: plain values 2k-1 and 2k carry
\* the same name.
VertexName(v) == IF IsHashable(v) THEN 0 ELSE (v + 1) \div 2

\* the vertices that implement HasSubgraph: each wraps a nested graph of its
\* own (Subgraph, below)
Wrappers == {21, 22, 23, 24, 25}

\* the vertices of the nested graphs
Inner == 31..38

Keys == {hashcode(v) : v \in Values \cup Wrappers \cup Inner}

\* The graphs are built acyclic, every edge going from a vertex of lower
\* rank to one of higher rank (every acyclic graph has such a ranking).
\* The Hashable vertex ranks between the plain values 2 and 3 when it was
\* added through its first value, and below all of them when through its
\* second.
\* A wrapper ranks between the plain values 1 and 2, the wrapper 22 between
\* 2 and 3.
Rank(v, added) ==
    IF v \in Wrappers THEN (IF v = 22 THEN 5 ELSE 3)
    ELSE IF ~IsHashable(v) THEN 2 * v ELSE IF 11 \in added THEN 5 ELSE 1

\* ------------------------------------------------------------------------
\* Set: a map from hashcode to vertex value, held as the set of its values
\* (no two of which share a hashcode).
\* ------------------------------------------------------------------------

SetKeys(s) == {hashcode(x) : x \in s}

SetAdd(s, v) == {x \in s : hashcode(x) # hashcode(v)} \cup {v}

SetDelete(s, v) == {x \in s : hashcode(x) # hashcode(v)}

\* Intersection keeps the receiver's values whose key the other set has
Intersection(s, other) == {x \in s : hashcode(x) \in SetKeys(other)}

IsSet(s) == \A x, y \in s : hashcode(x) = hashcode(y) => x = y

RECURSIVE Perms(_)
\* every order a `range` over the Set may produce
Perms(s) ==
    IF s = {} THEN {<<>>}
    ELSE UNION {{<<x>> \o q : q \in Perms(s \ {x})} : x \in s}

\* ------------------------------------------------------------------------
\* State.
\* ------------------------------------------------------------------------

VARIABLES
    vertices,   \* GraphBase.vertices: the Set of added vertices
    downEdges,  \* GraphBase.downEdges: key -> Set of direct successors
    upEdges,    \* GraphBase.upEdges: key -> Set of direct predecessors
    op,         \* the operation in progress, "none" between operations
    pc,         \* where the operation stands: "idle", "loop", "walk", "done"
    arg,        \* the arguments of the operation: [start], [list] (sorted), [v], or the opts
    frontier,   \* the walk's frontier, a sequence of vertexAtDepth
    seen,       \* the walk's seen map (its keys)
    calls,      \* the caller's visitor's calls so far: vertex, depth, what it returned
    err,        \* the error the operation returned, "nil" for none
    result,     \* the value the operation returned
    locals,     \* further locals of the operation: the loop it is in
    entry,      \* the graph as it was when the operation was called
    prev        \* the outcome of the operation called just before, if any

store == <<vertices, downEdges, upEdges>>

walk == <<frontier, seen, calls>>

vars == <<vertices, downEdges, upEdges, op, pc, arg, frontier, seen, calls, err, result, locals, entry, prev>>

\* the nil error
Nil == [msg |-> "nil", roots |-> <<>>]

EmptyStore == [vertices |-> {}, downEdges |-> [k \in Keys |-> {}], upEdges |-> [k \in Keys |-> {}]]

NoPrev == [op |-> "none", calls |-> <<>>, entry |-> EmptyStore]

\* no operation is running: it has no argument and no locals
NoArg == [none |-> TRUE]

NoLocals == [none |-> TRUE]

Init ==
    /\ vertices = {}
    /\ downEdges = [k \in Keys |-> {}]
    /\ upEdges = [k \in Keys |-> {}]
    /\ op = "none"
    /\ pc = "idle"
    /\ arg = NoArg
    /\ frontier = <<>>
    /\ seen = {}
    /\ calls = <<>>
    /\ err = Nil
    /\ result = {}
    /\ locals = NoLocals
    /\ entry = EmptyStore
    /\ prev = NoPrev

\* ------------------------------------------------------------------------
\* The graph store.
\* ------------------------------------------------------------------------

downEdgesNoCopy(v) == downEdges[hashcode(v)]

upEdgesNoCopy(v) == upEdges[hashcode(v)]

NumEdges == Cardinality(UNION {{<<k, j>> : j \in SetKeys(downEdges[k])} : k \in Keys})

\* how many vertex values the callers hold for the vertices of s: one for a
\* plain vertex, both Hashables of a Hashable one, two for a wrapper (itself
\* and the graph it wraps)
InUse(s) ==
    Cardinality(s \cap Plain)
    + (IF s \cap Hashables = {} THEN 0 ELSE Cardinality(Hashables))
    + 2 * Cardinality(s \cap Wrappers)

\* Add(v): vertices are added before the edges, the plain ones in ascending
\* order, the Hashable one through either of its values (edges and queries
\* name it through either, too)
Add(v) ==
    /\ pc = "idle"
    /\ hashcode(v) \notin SetKeys(vertices)
    /\ NumEdges = 0
    /\ InUse(vertices \cup {v}) <= MaxValues
    /\ v \in Plain => v = Cardinality(vertices \cap Plain) + 1
    /\ vertices' = SetAdd(vertices, v)
    /\ UNCHANGED <<downEdges, upEdges, op, pc, arg, frontier, seen, calls, err, result, locals, entry, prev>>

\* Connect(BasicEdge(s, t)) between two vertices of the graph
Connect(s, t) ==
    /\ pc = "idle"
    /\ hashcode(s) \in SetKeys(vertices)
    /\ hashcode(t) \in SetKeys(vertices)
    /\ Rank(s, vertices) < Rank(t, vertices)
    /\ hashcode(t) \notin SetKeys(downEdgesNoCopy(s))
    /\ NumEdges < MaxEdges
    /\ downEdges' = [downEdges EXCEPT ![hashcode(s)] = SetAdd(@, t)]
    /\ upEdges' = [upEdges EXCEPT ![hashcode(t)] = SetAdd(@, s)]
    /\ UNCHANGED <<vertices, op, pc, arg, frontier, seen, calls, err, result, locals, entry, prev>>

\* the edges that go against the ranking, self-loops among them
BackEdges ==
    UNION {{<<s, t>> : t \in {x \in downEdges[hashcode(s)] : Rank(s, vertices) >= Rank(x, vertices)}} :
              s \in vertices}

\* Connect(BasicEdge(s, t)) where it goes against the ranking: nothing in the
\* store refuses an edge that closes a cycle
ConnectBack(s, t) ==
    /\ pc = "idle"
    /\ hashcode(s) \in SetKeys(vertices)
    /\ hashcode(t) \in SetKeys(vertices)
    /\ Rank(s, vertices) >= Rank(t, vertices)
    /\ hashcode(t) \notin SetKeys(downEdgesNoCopy(s))
    /\ NumEdges < MaxEdges
    /\ Cardinality(BackEdges) < MaxBack
    /\ downEdges' = [downEdges EXCEPT ![hashcode(s)] = SetAdd(@, t)]
    /\ upEdges' = [upEdges EXCEPT ![hashcode(t)] = SetAdd(@, s)]
    /\ UNCHANGED <<vertices, op, pc, arg, frontier, seen, calls, err, result, locals, entry, prev>>

\* the store after RemoveEdge(BasicEdge(s, t)), as <<downEdges, upEdges>>
RemoveEdge(dn, up, s, t) ==
    << [dn EXCEPT ![hashcode(s)] = SetDelete(@, t)],
       [up EXCEPT ![hashcode(t)] = SetDelete(@, s)] >>

\* ------------------------------------------------------------------------
\* Calling and leaving an operation.
\* ------------------------------------------------------------------------

Snapshot == [vertices |-> vertices, downEdges |-> downEdges, upEdges |-> upEdges]

\* mutant: the entries carry the depth of the vertex they were reached from
AtDepthParent(q, d) == [i \in 1..Len(q) |-> [Vertex |-> q[i], Depth |-> IF d = 0 THEN 0 ELSE d - 1]]

\* vertexAtDepth entries for the vertices of q, in q's order
AtDepth(q, d) == [i \in 1..Len(q) |-> [Vertex |-> q[i], Depth |-> d]]

\* the start sets a caller passes: Sets of vertices of the graph
StartSets ==
    {s \in SUBSET {v \in Values : hashcode(v) \in SetKeys(vertices)} :
        IsSet(s) /\ Cardinality(s) <= MaxStart}

\* the start sequences a caller passes to the sorted walks
StartSeqs == UNION {Perms(s) : s \in StartSets}

\* the errors a caller's visitor may return
VisitorErrors == {[msg |-> "visitor failed", roots |-> <<>>]}

\* an operation is called when none is running
Begin(o, a) ==
    /\ pc = "idle"
    /\ op' = o
    /\ arg' = a
    /\ seen' = {}
    /\ calls' = <<>>
    /\ err' = Nil
    /\ result' = {}
    /\ entry' = Snapshot
    /\ prev' = NoPrev
    /\ UNCHANGED store

\* the same operation is called again with the same argument, right after
\* it returned without error
Again(o) ==
    /\ pc = "done"
    /\ op = o
    /\ err = Nil
    /\ prev = NoPrev
    /\ prev' = [op |-> op, calls |-> calls, entry |-> entry]
    /\ seen' = {}
    /\ calls' = <<>>
    /\ err' = Nil
    /\ result' = {}
    /\ entry' = Snapshot
    /\ UNCHANGED <<store, op, arg>>

\* the caller takes the outcome; what it calls next is independent of it
Return ==
    /\ pc = "done"
    /\ op' = "none"
    /\ pc' = "idle"
    /\ arg' = NoArg
    /\ frontier' = <<>>
    /\ seen' = {}
    /\ calls' = <<>>
    /\ err' = Nil
    /\ result' = {}
    /\ locals' = NoLocals
    /\ entry' = EmptyStore
    /\ prev' = NoPrev
    /\ UNCHANGED store

\* ------------------------------------------------------------------------
\* The visitors.
\* ------------------------------------------------------------------------

\* a caller's visitor: it is handed (v, d), returns nil or an error, and
\* does not touch the graph
callerFunc(v, d, e) ==
    /\ e \in {Nil} \cup VisitorErrors
    /\ calls' = Append(calls, [Vertex |-> v, Depth |-> d, ret |-> e])
    /\ UNCHANGED <<store, result>>

\* mutant: the vertex is added to the Set the walk starts from, which is the
\* store's own
memoFuncIntoStart(v, d, e) ==
    /\ e = Nil
    /\ result' = SetAdd(result, v)
    /\ downEdges' = IF op = "Descendants"
                    THEN [downEdges EXCEPT ![hashcode(arg.v)] = SetAdd(@, v)] ELSE downEdges
    /\ upEdges' = IF op = "Ancestors"
                  THEN [upEdges EXCEPT ![hashcode(arg.v)] = SetAdd(@, v)] ELSE upEdges
    /\ UNCHANGED <<vertices, calls>>

\* memoFunc of Descendants and Ancestors
memoFunc(v, d, e) ==
    /\ e = Nil
    /\ result' = SetAdd(result, v)
    /\ UNCHANGED <<store, calls>>

RECURSIVE RemoveEdges(_, _, _, _)
\* RemoveEdge(BasicEdge(u, vPrime)) for the vPrime of q in turn
RemoveEdges(dn, up, u, q) ==
    IF q = <<>> THEN <<dn, up>>
    ELSE LET st == RemoveEdge(dn, up, u, Head(q))
         IN  RemoveEdges(st[1], st[2], u, Tail(q))

\* mutant: the visit of v removes every edge out of u
SharedAll(uTargets, v) == uTargets

\* the edges out of u that the visit of v removes
Shared(uTargets, v) == Intersection(uTargets, downEdgesNoCopy(v))

\* mutant: the visit removes one shared edge and leaves the others
reduceFuncFirstOnly(v, d, e) ==
    /\ e = Nil
    /\ LET u == locals.u
           shared == Intersection(downEdgesNoCopy(u), downEdgesNoCopy(v))
           st == IF shared = {} THEN <<downEdges, upEdges>>
                 ELSE RemoveEdge(downEdges, upEdges, u, CHOOSE x \in shared : TRUE)
       IN  /\ downEdges' = st[1]
           /\ upEdges' = st[2]
    /\ UNCHANGED <<vertices, calls, result>>

\* the visitor TransitiveReduction walks with; uTargets is the store's own
\* Set of u's successors, so it is read as it is at the time of the visit
reduceFunc(v, d, e) ==
    /\ e = Nil
    /\ LET u == locals.u
           shared == Shared(downEdgesNoCopy(u), v)
           st == RemoveEdges(downEdges, upEdges, u, CHOOSE q \in Perms(shared) : TRUE)
       IN  /\ downEdges' = st[1]
           /\ upEdges' = st[2]
    /\ UNCHANGED <<vertices, calls, result>>

Visit(v, d, e) ==
    CASE op \in {"Descendants", "Ancestors"} -> memoFunc(v, d, e)
      [] op = "TransitiveReduction" -> reduceFunc(v, d, e)
      [] OTHER -> callerFunc(v, d, e)

\* where control goes when the walk returns
AfterWalk ==
    CASE op \in {"Descendants", "Ancestors"} -> "ret"
      [] op = "TransitiveReduction" -> "loop"
      [] OTHER -> "done"

\* ------------------------------------------------------------------------
\* The depth-first walks: one iteration of `for len(frontier) > 0`.
\* ------------------------------------------------------------------------

\* the orders sort.Sort(byVertexName(targets)) may leave targets in: the
\* sort is not stable and targets come out of a map, so vertices of equal
\* name end up in any order
SortedByName(s) ==
    {q \in Perms(s) : \A i, j \in 1..Len(q) : i < j => VertexName(q[i]) <= VertexName(q[j])}

\* mutant: the walk never takes the visitor's error
FailedNever(e) == FALSE

\* `err != nil` of what the visitor returned
Failed(e) == e # Nil

\* mutant: the forward walk pushes no successor
DownTargetsNone(dn, up, v) == {<<>>}

\* the orders the walk w pushes the adjacency of v in: `range` over
\* downEdgesNoCopy or upEdgesNoCopy, sorted by name in the sorted walks
DownTargets(dn, up, v) == Perms(dn[hashcode(v)])

\* mutant: the reverse walk pushes the successors, as the forward walk does
UpTargetsDown(dn, up, v) == Perms(dn[hashcode(v)])

UpTargets(dn, up, v) == Perms(up[hashcode(v)])

SortedDownTargets(dn, up, v) == SortedByName(dn[hashcode(v)])

SortedUpTargets(dn, up, v) == SortedByName(up[hashcode(v)])

\* seen[hashcode(current.Vertex)]
SeenByHashcode(v) == hashcode(v)

\* seen[current.Vertex]
SeenByValue(v) == v

\* the four depth-first walks differ in three places only
Targets(w, dn, up, v) ==
    CASE w = "DepthFirstWalk" -> DownTargets(dn, up, v)
      [] w = "SortedDepthFirstWalk" -> SortedDownTargets(dn, up, v)
      [] w = "ReverseDepthFirstWalk" -> UpTargets(dn, up, v)
      [] w = "SortedReverseDepthFirstWalk" -> SortedUpTargets(dn, up, v)

\* the key into seen
SeenKey(w, v) == IF w = "DepthFirstWalk" THEN SeenByHashcode(v) ELSE SeenByValue(v)

\* the forward walks visit the vertex, then read its targets; the reverse
\* walks read the targets first
VisitsFirst(w) == w \in {"DepthFirstWalk", "SortedDepthFirstWalk"}

\* mutant: a vertex seen already is left on the frontier
StackWalkSeenStays(w) ==
    /\ pc = "walk"
    /\ frontier # <<>>
    /\ LET n == Len(frontier)
           current == frontier[n]
           rest == SubSeq(frontier, 1, n - 1)
       IN  IF SeenKey(w, current.Vertex) \in seen
           THEN UNCHANGED <<store, op, pc, arg, frontier, seen, calls, err, result, locals, entry, prev>>
           ELSE /\ seen' = seen \cup {SeenKey(w, current.Vertex)}
                /\ \E e \in {Nil} \cup VisitorErrors :
                      /\ Visit(current.Vertex, current.Depth, e)
                      /\ IF Failed(e)
                         THEN /\ err' = e
                              /\ pc' = AfterWalk
                              /\ frontier' = <<>>
                         ELSE /\ \E q \in (IF VisitsFirst(w)
                                           THEN Targets(w, downEdges', upEdges', current.Vertex)
                                           ELSE Targets(w, downEdges, upEdges, current.Vertex)) :
                                    frontier' = rest \o AtDepth(q, current.Depth + 1)
                              /\ UNCHANGED <<err, pc>>
                /\ UNCHANGED <<op, arg, locals, entry, prev>>

\* One iteration of the walk w: pop the current vertex; skip it if seen;
\* else mark it, visit it and push its targets.
StackWalk(w) ==
    /\ pc = "walk"
    /\ frontier # <<>>
    /\ LET n == Len(frontier)
           current == frontier[n]
           rest == SubSeq(frontier, 1, n - 1)
       IN  IF SeenKey(w, current.Vertex) \in seen
           THEN /\ frontier' = rest
                /\ UNCHANGED <<store, op, pc, arg, seen, calls, err, result, locals, entry, prev>>
           ELSE /\ seen' = seen \cup {SeenKey(w, current.Vertex)}
                /\ \E e \in {Nil} \cup VisitorErrors :
                      /\ Visit(current.Vertex, current.Depth, e)
                      /\ IF Failed(e)
                         THEN /\ err' = e
                              /\ pc' = AfterWalk
                              /\ frontier' = <<>>
                         ELSE /\ \E q \in (IF VisitsFirst(w)
                                           THEN Targets(w, downEdges', upEdges', current.Vertex)
                                           ELSE Targets(w, downEdges, upEdges, current.Vertex)) :
                                    frontier' = rest \o AtDepth(q, current.Depth + 1)
                              /\ UNCHANGED <<err, pc>>
                /\ UNCHANGED <<op, arg, locals, entry, prev>>

\* the walk's `return nil`
WalkExit ==
    /\ pc = "walk"
    /\ op # "BreadthFirstWalk"
    /\ frontier = <<>>
    /\ pc' = AfterWalk
    /\ UNCHANGED <<store, op, arg, frontier, seen, calls, err, result, locals, entry, prev>>

CallDepthFirstWalk ==
    /\ pc = "idle"
    /\ \E start \in StartSets : \E q \in Perms(start) :
           /\ Begin("DepthFirstWalk", [start |-> start])
           /\ frontier' = AtDepth(q, 0)
           /\ pc' = "walk"
           /\ UNCHANGED locals

DepthFirstWalk ==
    /\ op \in {"DepthFirstWalk", "Descendants", "TransitiveReduction"}
    /\ StackWalk("DepthFirstWalk")

CallSortedDepthFirstWalk ==
    /\ pc = "idle"
    /\ \E start \in StartSeqs :
           /\ Begin("SortedDepthFirstWalk", [list |-> start])
           /\ frontier' = AtDepth(start, 0)
           /\ pc' = "walk"
           /\ UNCHANGED locals

\* a second invocation on the same graph with the same start sequence
CallSortedDepthFirstWalkAgain ==
    /\ Again("SortedDepthFirstWalk")
    /\ frontier' = AtDepth(arg.list, 0)
    /\ pc' = "walk"
    /\ UNCHANGED locals

SortedDepthFirstWalk ==
    /\ op = "SortedDepthFirstWalk"
    /\ StackWalk("SortedDepthFirstWalk")

CallReverseDepthFirstWalk ==
    /\ pc = "idle"
    /\ \E start \in StartSets : \E q \in Perms(start) :
           /\ Begin("ReverseDepthFirstWalk", [start |-> start])
           /\ frontier' = AtDepth(q, 0)
           /\ pc' = "walk"
           /\ UNCHANGED locals

ReverseDepthFirstWalk ==
    /\ op \in {"ReverseDepthFirstWalk", "Ancestors"}
    /\ StackWalk("ReverseDepthFirstWalk")

CallSortedReverseDepthFirstWalk ==
    /\ pc = "idle"
    /\ \E start \in StartSeqs :
           /\ Begin("SortedReverseDepthFirstWalk", [list |-> start])
           /\ frontier' = AtDepth(start, 0)
           /\ pc' = "walk"
           /\ UNCHANGED locals

SortedReverseDepthFirstWalk ==
    /\ op = "SortedReverseDepthFirstWalk"
    /\ StackWalk("SortedReverseDepthFirstWalk")

\* ------------------------------------------------------------------------
\* The breadth-first walk.
\* ------------------------------------------------------------------------

CallBreadthFirstWalk ==
    /\ pc = "idle"
    /\ \E start \in StartSets : \E q \in Perms(start) :
           /\ Begin("BreadthFirstWalk", [start |-> start])
           /\ frontier' = AtDepth(q, 0)
           /\ locals' = [n |-> 0, i |-> 0]
           /\ pc' = "walk"

\* `current := frontier[i]`
Current(f, i) == f[i + 1]

\* mutant: the walk pops the most recent entry, as the depth-first walk does
BreadthFirstWalkAsStack ==
    /\ op = "BreadthFirstWalk"
    /\ StackWalk("DepthFirstWalk")

\* one iteration of `for i := 0; i < n; i++`
BreadthFirstWalk ==
    /\ op = "BreadthFirstWalk"
    /\ pc = "walk"
    /\ locals.i < locals.n
    /\ LET current == Current(frontier, locals.i)
       IN  IF hashcode(current.Vertex) \in seen
           THEN /\ locals' = [locals EXCEPT !.i = @ + 1]
                /\ UNCHANGED <<store, op, pc, arg, frontier, seen, calls, err, result, entry, prev>>
           ELSE /\ seen' = seen \cup {hashcode(current.Vertex)}
                /\ \E e \in {Nil} \cup VisitorErrors :
                      /\ Visit(current.Vertex, current.Depth, e)
                      /\ IF Failed(e)
                         THEN /\ err' = e
                              /\ pc' = "done"
                              /\ frontier' = <<>>
                              /\ UNCHANGED locals
                         ELSE /\ \E q \in Perms(downEdgesNoCopy(current.Vertex)) :
                                    frontier' = frontier \o AtDepth(q, current.Depth + 1)
                              /\ locals' = [locals EXCEPT !.i = @ + 1]
                              /\ UNCHANGED <<err, pc>>
                /\ UNCHANGED <<op, arg, entry, prev>>

\* the end of a level: `frontier = frontier[n:]`, then `for len(frontier) > 0`
\* either starts the next level with `n := len(frontier)` or the walk returns nil
BreadthFirstWalkLevel ==
    /\ op = "BreadthFirstWalk"
    /\ pc = "walk"
    /\ locals.i = locals.n
    /\ LET next == SubSeq(frontier, locals.n + 1, Len(frontier))
       IN  /\ frontier' = next
           /\ locals' = [n |-> Len(next), i |-> 0]
           /\ pc' = IF next = <<>> THEN "done" ELSE "walk"
    /\ UNCHANGED <<store, op, arg, seen, calls, err, result, entry, prev>>

\* ------------------------------------------------------------------------
\* Descendants, Ancestors, Root.
\* ------------------------------------------------------------------------

\* the vertices a caller asks about: values of vertices of the graph
Known == {v \in Values : hashcode(v) \in SetKeys(vertices)}

\* mutant: the walk starts at v itself
DescendantsStartSelf(v) == {v}

\* the start set Descendants walks from
DescendantsStart(v) == downEdgesNoCopy(v)

\* mutant: the walk up starts at the successors of v
AncestorsStartDown(v) == downEdgesNoCopy(v)

\* the start set Ancestors walks from
AncestorsStart(v) == upEdgesNoCopy(v)

CallDescendants ==
    /\ pc = "idle"
    /\ \E v \in Known : \E q \in Perms(DescendantsStart(v)) :
           /\ Begin("Descendants", [v |-> v])
           /\ frontier' = AtDepth(q, 0)
           /\ pc' = "walk"
           /\ UNCHANGED locals

CallAncestors ==
    /\ pc = "idle"
    /\ \E v \in Known : \E q \in Perms(AncestorsStart(v)) :
           /\ Begin("Ancestors", [v |-> v])
           /\ frontier' = AtDepth(q, 0)
           /\ pc' = "walk"
           /\ UNCHANGED locals

\* `return nil, err` when the walk failed, else `return s, nil`; the nil Set
\* reads as the empty one
MemoReturn ==
    /\ op \in {"Descendants", "Ancestors"}
    /\ pc = "ret"
    /\ result' = IF err # Nil THEN {} ELSE result
    /\ pc' = "done"
    /\ UNCHANGED <<store, op, arg, frontier, seen, calls, err, locals, entry, prev>>

\* mutant: Root counts the vertices without outgoing edge
IsRootDown(v) == Cardinality(downEdgesNoCopy(v)) = 0

\* whether Root counts v: it has no incoming edge
IsRoot(v) == Cardinality(upEdgesNoCopy(v)) = 0

\* what Root returns for the roots it collected: <<vertex, error>>, the
\* vertex as a sequence of one, nil as the empty one
RootOutcome(roots) ==
    IF Len(roots) > 1 THEN << <<>>, [msg |-> "multiple roots", roots |-> roots] >>
    ELSE IF Len(roots) = 0 THEN << <<>>, [msg |-> "no roots found", roots |-> <<>>] >>
    ELSE << <<roots[1]>>, Nil >>

Root ==
    /\ pc = "idle"
    /\ \E order \in Perms(vertices) :
          LET roots == SelectSeq(order, IsRoot)
              out == RootOutcome(roots)
          IN  /\ result' = out[1]
              /\ err' = out[2]
    /\ op' = "Root"
    /\ pc' = "done"
    /\ entry' = Snapshot
    /\ UNCHANGED <<store, arg, frontier, seen, calls, locals, prev>>

\* ------------------------------------------------------------------------
\* TransitiveReduction.
\* ------------------------------------------------------------------------

\* g.Vertices() is taken once; the loop then ranges over it in its order,
\* which is any order
CallTransitiveReduction ==
    /\ Begin("TransitiveReduction", NoArg)
    /\ locals' = [u |-> 0, todo |-> vertices]
    /\ frontier' = <<>>
    /\ pc' = "loop"

\* TransitiveReduction run a second time, right after the first
CallTransitiveReductionAgain ==
    /\ Again("TransitiveReduction")
    /\ locals' = [u |-> 0, todo |-> vertices]
    /\ frontier' = <<>>
    /\ pc' = "loop"

\* mutant: the walk for u starts at u itself
TransitiveReductionFromSelf ==
    /\ op = "TransitiveReduction"
    /\ pc = "loop"
    /\ IF locals.todo = {}
       THEN /\ pc' = "done"
            /\ UNCHANGED <<frontier, seen, locals>>
       ELSE \E u \in locals.todo :
               /\ locals' = [u |-> u, todo |-> locals.todo \ {u}]
               /\ frontier' = AtDepth(<<u>>, 0)
               /\ seen' = {}
               /\ pc' = "walk"
    /\ UNCHANGED <<store, op, arg, calls, err, result, entry, prev>>

\* `for _, u := range g.Vertices()`: the next u and the start of its walk
TransitiveReduction ==
    /\ op = "TransitiveReduction"
    /\ pc = "loop"
    /\ IF locals.todo = {}
       THEN /\ pc' = "done"
            /\ UNCHANGED <<frontier, seen, locals>>
       ELSE \E u \in locals.todo : \E q \in Perms(downEdgesNoCopy(u)) :
               /\ locals' = [u |-> u, todo |-> locals.todo \ {u}]
               /\ frontier' = AtDepth(q, 0)
               /\ seen' = {}
               /\ pc' = "walk"
    /\ UNCHANGED <<store, op, arg, calls, err, result, entry, prev>>

\* ------------------------------------------------------------------------
\* Marshal: the rewiring of the edges into and out of the vertices that wrap
\* a nested graph.
\* ------------------------------------------------------------------------

\* `target.(HasSubgraph)`
HasSubgraph(v) == v \in Wrappers

\* The nested graphs:
\*   21 wraps 31 -> 32 -> 34, 31 -> 33   (one root, two leaves)
\*   22 wraps 35 -> 36                   (one root, one leaf)
\*   23 wraps 37, 38 without an edge     (two roots)
\*   24 wraps the graph without vertices (no root)
\*   25 wraps a graph that is a Graph but no *AcyclicGraph
SubgraphVertices(w) ==
    CASE w = 21 -> {31, 32, 33, 34}
      [] w = 22 -> {35, 36}
      [] w = 23 -> {37, 38}
      [] w = 25 -> {38}
      [] OTHER -> {}

SubgraphEdges(w) ==
    CASE w = 21 -> {<<31, 32>>, <<31, 33>>, <<32, 34>>}
      [] w = 22 -> {<<35, 36>>}
      [] OTHER -> {}

\* the nested graphs as stores, by the vertex that wraps them
Subgraphs ==
    [w \in Wrappers |->
        [vertices |-> SubgraphVertices(w),
         downEdges |-> [k \in Keys |-> {e[2] : e \in {x \in SubgraphEdges(w) : hashcode(x[1]) = k}}],
         upEdges |-> [k \in Keys |-> {e[1] : e \in {x \in SubgraphEdges(w) : hashcode(x[2]) = k}}],
         acyclicGraph |-> w # 25]]

\* vertexWithSubgraph.Subgraph()
Subgraph(w) == Subgraphs[w]

\* `subgraph.(*AcyclicGraph)`
IsAcyclicGraph(g) == g.acyclicGraph

\* ag.Edges(): the edges of the graph, as <<source, target>>
Edges ==
    UNION {{<<s, t>> : s \in upEdges[hashcode(t)]} : t \in UNION {downEdges[k] : k \in Keys}}

\* the store after Connect(BasicEdge(s, t)), as <<downEdges, upEdges>>; the
\* vertices of the graph are not touched
ConnectEdge(dn, up, s, t) ==
    << [dn EXCEPT ![hashcode(s)] = SetAdd(@, t)],
       [up EXCEPT ![hashcode(t)] = SetAdd(@, s)] >>

\* what acyclicSubgraph.Root() may return, as RootOutcome gives it
SubgraphRoot(g) ==
    {RootOutcome(SelectSeq(order, LAMBDA v : Cardinality(g.upEdges[hashcode(v)]) = 0)) :
        order \in Perms(g.vertices)}

RECURSIVE WalkOrders(_, _, _)
\* the orders in which acyclicSubgraph.DepthFirstWalk may hand the vertices
\* of g to its visitor, from the frontier f with the keys seenKeys seen
WalkOrders(g, f, seenKeys) ==
    IF f = <<>> THEN {<<>>}
    ELSE LET n == Len(f)
             current == f[n]
             rest == SubSeq(f, 1, n - 1)
         IN  IF hashcode(current) \in seenKeys
             THEN WalkOrders(g, rest, seenKeys)
             ELSE UNION {{<<current>> \o o :
                             o \in WalkOrders(g, rest \o q, seenKeys \cup {hashcode(current)})} :
                         q \in Perms(g.downEdges[hashcode(current)])}

\* acyclicSubgraph.Descendants(v): the vertices its walk from the successors
\* of v visits
SubgraphDescendants(g, v) ==
    LET q == CHOOSE q \in Perms(g.downEdges[hashcode(v)]) : TRUE
        o == CHOOSE o \in WalkOrders(g, q, {}) : TRUE
    IN  {o[i] : i \in 1..Len(o)}

\* the head of the edge goes to the root of the target's nested graph
ConnectHeads(dn, up, subgraphRoot, edge) ==
    LET c == ConnectEdge(dn, up, edge[1], subgraphRoot)
    IN  RemoveEdge(c[1], c[2], edge[1], edge[2])

RECURSIVE ConnectTails(_, _, _, _, _)
\* the visitor of the walk over the source's nested graph, called for the
\* vertices of o in turn: a vertex without descendants takes the edge's tail
ConnectTails(dn, up, g, o, edge) ==
    IF o = <<>> THEN <<dn, up>>
    ELSE LET downWalkVertex == Head(o)
             st == IF Cardinality(SubgraphDescendants(g, downWalkVertex)) = 0
                   THEN LET c == ConnectEdge(dn, up, downWalkVertex, edge[2])
                        IN  RemoveEdge(c[1], c[2], edge[1], edge[2])
                   ELSE <<dn, up>>
         IN  ConnectTails(st[1], st[2], g, Tail(o), edge)

\* ag.GraphBase.Marshal(opts): the graph as it is exported, the nested
\* graphs with it
GraphBaseMarshal ==
    [Vertices |-> vertices,
     Edges |-> Edges,
     Subgraphs |-> {[Name |-> w, Vertices |-> SubgraphVertices(w), Edges |-> SubgraphEdges(w)] :
                       w \in vertices \cap Wrappers}]

MarshalOpts == [ConnectSubgraphHeads : BOOLEAN, ConnectSubgraphTails : BOOLEAN]

\* Marshal(opts) takes ag.Edges() once and ranges over it, in any order
CallMarshal ==
    /\ pc = "idle"
    /\ \E opts \in MarshalOpts : Begin("Marshal", opts)
    /\ locals' = [todo |-> Edges, edge |-> <<>>]
    /\ pc' = "loop"
    /\ UNCHANGED frontier

\* mutant: the heads are connected whatever the option says
ConnectsHeadsAlways(opts, target) == HasSubgraph(target) /\ IsAcyclicGraph(Subgraph(target))

\* whether the iteration rewires the head of an edge into target
ConnectsHeads(opts, target) ==
    /\ opts.ConnectSubgraphHeads
    /\ HasSubgraph(target)
    /\ IsAcyclicGraph(Subgraph(target))

\* whether the iteration rewires the tail of an edge out of source
ConnectsTails(opts, source) ==
    /\ opts.ConnectSubgraphTails
    /\ HasSubgraph(source)
    /\ IsAcyclicGraph(Subgraph(source))

\* mutant: the failure is logged and the loop goes on with the next edge
FatalfSkipsEdge(st, e, edge) ==
    /\ downEdges' = st[1]
    /\ upEdges' = st[2]
    /\ locals' = [todo |-> locals.todo \ {edge}, edge |-> edge]
    /\ UNCHANGED <<err, pc, result>>

\* log.Fatalf: the process exits, with the graph as far as it was rewired
Fatalf(st, e, edge) ==
    /\ downEdges' = st[1]
    /\ upEdges' = st[2]
    /\ err' = e
    /\ pc' = "fatal"
    /\ locals' = [locals EXCEPT !.edge = edge]
    /\ UNCHANGED result

\* one iteration of `for _, edge := range ag.Edges()`, or the return after
\* the last
Marshal ==
    /\ op = "Marshal"
    /\ pc = "loop"
    /\ IF locals.todo = {}
       THEN /\ result' = GraphBaseMarshal
            /\ pc' = "done"
            /\ UNCHANGED <<downEdges, upEdges, err, locals>>
       ELSE \E edge \in locals.todo :
              LET source == edge[1]
                  target == edge[2]
                  heads == ConnectsHeads(arg, target)
                  tails == ConnectsTails(arg, source)
                  st0 == <<downEdges, upEdges>>
              IN  \E hr \in (IF heads THEN SubgraphRoot(Subgraph(target)) ELSE {<< <<>>, Nil >>}) :
                    IF Failed(hr[2]) THEN Fatalf(st0, hr[2], edge)
                    ELSE LET st1 == IF heads THEN ConnectHeads(st0[1], st0[2], hr[1][1], edge) ELSE st0
                         IN  \E tr \in (IF tails THEN SubgraphRoot(Subgraph(source)) ELSE {<< <<>>, Nil >>}) :
                               IF Failed(tr[2]) THEN Fatalf(st1, tr[2], edge)
                               ELSE \E o \in (IF tails THEN WalkOrders(Subgraph(source), tr[1], {})
                                              ELSE {<<>>}) :
                                      LET st2 == ConnectTails(st1[1], st1[2], Subgraph(source), o, edge)
                                      IN  /\ downEdges' = st2[1]
                                          /\ upEdges' = st2[2]
                                          /\ locals' = [todo |-> locals.todo \ {edge}, edge |-> edge]
                                          /\ UNCHANGED <<err, pc, result>>
    /\ UNCHANGED <<vertices, op, arg, frontier, seen, calls, entry, prev>>

\* ------------------------------------------------------------------------
\* The specification.
\* ------------------------------------------------------------------------

Build ==
    \/ \E v \in Values : Add(v)
    \/ \E s, t \in Values : Connect(s, t)

\* the reachability queries, Root and TransitiveReduction
Next ==
    \/ Build
    \/ CallDescendants
    \/ CallAncestors
    \/ DepthFirstWalk
    \/ ReverseDepthFirstWalk
    \/ WalkExit
    \/ MemoReturn
    \/ Root
    \/ CallTransitiveReduction
    \/ CallTransitiveReductionAgain
    \/ TransitiveReduction
    \/ Return

Spec == Init /\ [][Next]_vars

\* the five walks, called with a visitor of the caller
NextWalk ==
    \/ Build
    \/ CallDepthFirstWalk
    \/ DepthFirstWalk
    \/ CallBreadthFirstWalk
    \/ BreadthFirstWalk
    \/ BreadthFirstWalkLevel
    \/ CallSortedDepthFirstWalk
    \/ SortedDepthFirstWalk
    \/ CallReverseDepthFirstWalk
    \/ ReverseDepthFirstWalk
    \/ CallSortedReverseDepthFirstWalk
    \/ SortedReverseDepthFirstWalk
    \/ WalkExit
    \/ Return

SpecWalk == Init /\ [][NextWalk]_vars

\* SortedDepthFirstWalk, invoked once or twice in succession
NextSorted ==
    \/ Build
    \/ CallSortedDepthFirstWalk
    \/ CallSortedDepthFirstWalkAgain
    \/ SortedDepthFirstWalk
    \/ WalkExit
    \/ Return

SpecSorted == Init /\ [][NextSorted]_vars

\* every operation that only reads the graph
NextQuery ==
    \/ Build
    \/ CallDescendants
    \/ CallAncestors
    \/ MemoReturn
    \/ Root
    \/ CallDepthFirstWalk
    \/ DepthFirstWalk
    \/ CallBreadthFirstWalk
    \/ BreadthFirstWalk
    \/ BreadthFirstWalkLevel
    \/ CallSortedDepthFirstWalk
    \/ SortedDepthFirstWalk
    \/ CallReverseDepthFirstWalk
    \/ ReverseDepthFirstWalk
    \/ CallSortedReverseDepthFirstWalk
    \/ SortedReverseDepthFirstWalk
    \/ WalkExit
    \/ Return

SpecQuery == Init /\ [][NextQuery]_vars

\* the steps of an operation under way: the code runs them one after the
\* other until it returns
Run ==
    \/ DepthFirstWalk
    \/ BreadthFirstWalk
    \/ BreadthFirstWalkLevel
    \/ SortedDepthFirstWalk
    \/ ReverseDepthFirstWalk
    \/ SortedReverseDepthFirstWalk
    \/ WalkExit
    \/ MemoReturn
    \/ TransitiveReduction

\* the walks, Descendants, Ancestors and TransitiveReduction on graphs that
\* may hold a cycle
NextCyclic ==
    \/ \E v \in 1..MaxCyclic : Add(v)
    \/ \E s, t \in 1..MaxCyclic : Connect(s, t)
    \/ \E s, t \in 1..MaxCyclic : ConnectBack(s, t)
    \/ CallDescendants
    \/ CallAncestors
    \/ CallTransitiveReduction
    \/ CallDepthFirstWalk
    \/ CallBreadthFirstWalk
    \/ CallSortedDepthFirstWalk
    \/ CallReverseDepthFirstWalk
    \/ CallSortedReverseDepthFirstWalk
    \/ Run
    \/ Return

\* the operation is under way
Running == pc \in {"walk", "loop", "ret"}

\* the code's one thread keeps running the operation it is in
SpecCyclic == Init /\ [][NextCyclic]_vars /\ WF_vars(Run)

\* Add(v) to a graph Marshal is called on: a wrapper first (no iteration of
\* Marshal touches a graph without wrapper)
AddOuter(v) ==
    /\ v \in Plain => vertices \cap Wrappers # {}
    /\ Add(v)

\* the graphs Marshal is called on: wrappers and plain vertices
BuildOuter ==
    \/ \E v \in Plain \cup Wrappers : AddOuter(v)
    \/ \E s, t \in Plain \cup Wrappers : Connect(s, t)

\* Marshal; after log.Fatalf nothing runs
NextMarshal ==
    \/ BuildOuter
    \/ CallMarshal
    \/ Marshal
    \/ Return

SpecMarshal == Init /\ [][NextMarshal]_vars

\* ------------------------------------------------------------------------
\* Reachability, stated on the edge relation alone.
\* ------------------------------------------------------------------------

\* the keys one forward edge away from the keys of S, in the graph g
Step(g, S) == UNION {SetKeys(g.downEdges[k]) : k \in S}

RECURSIVE Closure(_, _)
\* S and everything reachable from it
Closure(g, S) ==
    LET n == S \cup Step(g, S)
    IN  IF n = S THEN S ELSE Closure(g, n)

\* the keys reachable from k by a forward path of one or more edges
Reachable(g, k) == Closure(g, Step(g, {k}))

\* the keys reachable from k by a forward path of two or more edges
ReachableFar(g, k) == Closure(g, Step(g, Step(g, {k})))

Acyclic(g) == \A k \in Keys : k \notin Reachable(g, k)

\* the edges of g, as pairs of keys
EdgesOf(g) == UNION {{<<k, j>> : j \in SetKeys(g.downEdges[k])} : k \in Keys}

Returned(o) == op = o /\ pc = "done"

\* ------------------------------------------------------------------------
\* Claims.
\* ------------------------------------------------------------------------

\* C1: on an acyclic graph, Descendants(v) returns exactly the vertices
\* reachable from v by a forward path of one or more edges: never v itself,
\* nothing unreachable, every reachable vertex.
C1_DescendantsExact ==
    (Returned("Descendants") /\ Acyclic(entry)) =>
        /\ err = Nil
        /\ hashcode(arg.v) \notin SetKeys(result)
        /\ SetKeys(result) = Reachable(Snapshot, hashcode(arg.v))

\* Descendants returned a vertex that is no direct successor of v
C1_Witness ==
    /\ Returned("Descendants")
    /\ \E x \in result : hashcode(x) \notin SetKeys(downEdgesNoCopy(arg.v))
    /\ Cardinality(result) >= 2

\* C2: on an acyclic graph, Ancestors(v) returns exactly the vertices from
\* which v is reachable by a forward path of one or more edges, and never v.
C2_AncestorsExact ==
    (Returned("Ancestors") /\ Acyclic(entry)) =>
        /\ err = Nil
        /\ hashcode(arg.v) \notin SetKeys(result)
        /\ SetKeys(result) = {k \in Keys : hashcode(arg.v) \in Reachable(Snapshot, k)}

\* Ancestors returned a vertex that is no direct predecessor of v
C2_Witness ==
    /\ Returned("Ancestors")
    /\ \E x \in result : hashcode(x) \notin SetKeys(upEdgesNoCopy(arg.v))
    /\ Cardinality(result) >= 2

\* C3: on an acyclic graph, TransitiveReduction preserves reachability: w is
\* reachable from u afterwards if and only if it was before, for all u, w.
C3_ReductionKeepsReachability ==
    (Returned("TransitiveReduction") /\ Acyclic(entry)) =>
        \A u \in Keys : Reachable(Snapshot, u) = Reachable(entry, u)

\* TransitiveReduction returned having removed at least two edges
C3_Witness ==
    /\ Returned("TransitiveReduction")
    /\ Cardinality(EdgesOf(entry) \ EdgesOf(Snapshot)) >= 2

\* C4: on an acyclic graph, after TransitiveReduction no remaining edge
\* (u, w) has a path from u to w of two or more remaining edges.
C4_ReductionLeavesNoRedundantEdge ==
    (Returned("TransitiveReduction") /\ Acyclic(entry)) =>
        \A p \in EdgesOf(Snapshot) : p[2] \notin ReachableFar(Snapshot, p[1])

\* TransitiveReduction returned having removed an edge that only a path of
\* three edges made redundant
C4_Witness ==
    /\ Returned("TransitiveReduction")
    /\ \E p \in EdgesOf(entry) \ EdgesOf(Snapshot) :
          p[2] \notin Step(entry, Step(entry, {p[1]}) \ {p[2]})

\* C5: TransitiveReduction run a second time right after the first removes
\* no further edge: the edges after two runs are the edges after one.
C5_ReductionIdempotent ==
    (Returned("TransitiveReduction") /\ prev.op = "TransitiveReduction" /\ Acyclic(prev.entry)) =>
        /\ downEdges = entry.downEdges
        /\ upEdges = entry.upEdges

\* the second run returned, the first having removed an edge
C5_Witness ==
    /\ Returned("TransitiveReduction")
    /\ prev.op = "TransitiveReduction"
    /\ EdgesOf(prev.entry) # EdgesOf(entry)
    /\ EdgesOf(entry) # {}

\* the vertices of the graph no edge leads to
ZeroIndegree == {v \in vertices : \A k \in Keys : hashcode(v) \notin SetKeys(downEdges[k])}

Range(q) == {q[i] : i \in 1..Len(q)}

\* C6: Root returns r if and only if r is the only vertex with no incoming
\* edge; it fails with the no-root error exactly when there is none, and
\* with the ambiguous-root error, reporting exactly the vertices without
\* incoming edge, exactly when there are several; it never returns a vertex
\* together with an error.
C6_RootContract ==
    Returned("Root") =>
        /\ (err = Nil) <=> (Cardinality(ZeroIndegree) = 1)
        /\ err = Nil => (Len(result) = 1 /\ ZeroIndegree = {result[1]})
        /\ (err.msg = "no roots found") <=> (ZeroIndegree = {})
        /\ (err.msg = "multiple roots") <=> (Cardinality(ZeroIndegree) > 1)
        /\ err.msg = "multiple roots" =>
              (Range(err.roots) = ZeroIndegree /\ Len(err.roots) = Cardinality(ZeroIndegree))
        /\ err.msg \in {"nil", "no roots found", "multiple roots"}
        /\ err # Nil => result = <<>>

\* Root failed as ambiguous on a graph that has edges
C6_Witness ==
    /\ Returned("Root")
    /\ err.msg = "multiple roots"
    /\ Len(err.roots) >= 2
    /\ NumEdges >= 2

\* ------------------------------------------------------------------------
\* Claims about the walks.
\* ------------------------------------------------------------------------

ForwardWalks == {"DepthFirstWalk", "BreadthFirstWalk", "SortedDepthFirstWalk"}

ReverseWalks == {"ReverseDepthFirstWalk", "SortedReverseDepthFirstWalk"}

SortedWalks == {"SortedDepthFirstWalk", "SortedReverseDepthFirstWalk"}

Walks == ForwardWalks \cup ReverseWalks

\* the keys of the walk's start set or start sequence
StartKeys == IF op \in SortedWalks THEN SetKeys(Range(arg.list)) ELSE SetKeys(arg.start)

\* g with every edge turned around
Flip(g) == [downEdges |-> [k \in Keys |-> {j \in Keys : k \in SetKeys(g.downEdges[j])}]]

\* the keys reachable from the start in the walk's direction, by zero or
\* more edges
WalkReach ==
    IF op \in ForwardWalks THEN Closure(Snapshot, StartKeys)
    ELSE Closure(Flip(Snapshot), StartKeys)

\* the keys of the vertices the visitor was called with, in call order
Visited == [i \in 1..Len(calls) |-> hashcode(calls[i].Vertex)]

\* C7: in every walk variant, with a visitor that never fails, the visitor
\* is invoked exactly once for each vertex reachable from the start set in
\* the walk's direction, and for no other vertex.
C7_VisitedExactlyOnce ==
    (op \in Walks /\ pc = "done" /\ err = Nil) =>
        /\ Range(Visited) = WalkReach
        /\ \A i, j \in 1..Len(calls) : i # j => Visited[i] # Visited[j]

\* C8: when the visitor returns an error, the walk returns that same error
\* and the visitor is not invoked for any vertex afterwards.
C8_VisitorErrorStopsWalk ==
    op \in Walks =>
        /\ \A i \in 1..Len(calls) :
              calls[i].ret # Nil => (i = Len(calls) /\ pc = "done" /\ err = calls[i].ret)
        /\ err # Nil => (Len(calls) > 0 /\ calls[Len(calls)].ret = err)

\* a walk returned the visitor's error after more than one call, with a
\* reachable vertex left unvisited
C8_Witness ==
    /\ op \in Walks
    /\ pc = "done"
    /\ err # Nil
    /\ Len(calls) >= 2
    /\ WalkReach \ Range(Visited) # {}

\* C9: the depths BreadthFirstWalk passes to the visitor are non-decreasing
\* over the whole walk.
C9_BreadthFirstDepthsNonDecreasing ==
    op = "BreadthFirstWalk" =>
        \A i, j \in 1..Len(calls) : i < j => calls[i].Depth <= calls[j].Depth

\* BreadthFirstWalk returned after visiting three levels, two vertices on
\* one of them
C9_Witness ==
    /\ Returned("BreadthFirstWalk")
    /\ err = Nil
    /\ \E i \in 1..Len(calls) : calls[i].Depth = 2
    /\ \E i, j \in 1..Len(calls) : i # j /\ calls[i].Depth = calls[j].Depth

\* the (vertex, depth) pairs of the visitor calls
VertexDepths(c) == [i \in 1..Len(c) |-> <<c[i].Vertex, c[i].Depth>>]

\* C10: two invocations of SortedDepthFirstWalk on the same graph with the
\* same start sequence emit identical sequences of (vertex, depth) calls.
C10_SortedWalkDeterministic ==
    (Returned("SortedDepthFirstWalk") /\ err = Nil /\ prev.op = "SortedDepthFirstWalk") =>
        VertexDepths(calls) = VertexDepths(prev.calls)

\* ------------------------------------------------------------------------
\* Claims about Marshal.
\* ------------------------------------------------------------------------

\* the vertices of the graph nested in w that no edge of it leads to
NestedRoots(w) == {v \in SubgraphVertices(w) : \A e \in SubgraphEdges(w) : e[2] # v}

\* the vertices of the graph nested in w that no edge of it leaves
NestedLeaves(w) == {v \in SubgraphVertices(w) : \A e \in SubgraphEdges(w) : e[1] # v}

\* w wraps an acyclic graph with exactly one root
WrapsRooted(w) ==
    /\ w \in Wrappers
    /\ Subgraph(w).acyclicGraph
    /\ Acyclic(Subgraph(w))
    /\ Cardinality(NestedRoots(w)) = 1

\* w wraps an acyclic graph without root, or with several
WrapsMalformed(w) ==
    /\ w \in Wrappers
    /\ Subgraph(w).acyclicGraph
    /\ Cardinality(NestedRoots(w)) # 1

\* C11: Marshal with ConnectSubgraphHeads: for every edge (source, target)
\* at entry whose target wraps an acyclic subgraph with exactly one root,
\* the graph afterwards has the edge (source, subgraphRoot) and no longer
\* the edge (source, target).
C11_HeadsRewired ==
    (Returned("Marshal") /\ arg.ConnectSubgraphHeads) =>
        \A e \in EdgesOf(entry) :
            WrapsRooted(e[2]) =>
                /\ \A r \in NestedRoots(e[2]) : <<e[1], r>> \in EdgesOf(Snapshot)
                /\ e \notin EdgesOf(Snapshot)

\* C12: Marshal with ConnectSubgraphTails: for every edge (source, target)
\* at entry whose source wraps an acyclic subgraph with exactly one root,
\* the graph afterwards has an edge (leaf, target) for every vertex of the
\* subgraph without outgoing edge inside it, has such an edge for no other
\* vertex of the subgraph, and no longer has the edge (source, target).
C12_TailsRewired ==
    (Returned("Marshal") /\ arg.ConnectSubgraphTails) =>
        \A e \in EdgesOf(entry) :
            WrapsRooted(e[1]) =>
                /\ \A x \in SubgraphVertices(e[1]) :
                      (<<x, e[2]>> \in EdgesOf(Snapshot)) <=> (x \in NestedLeaves(e[1]))
                /\ e \notin EdgesOf(Snapshot)

\* C13: after Marshal with both options, on a graph whose wrappers each wrap
\* an acyclic subgraph with exactly one root, no edge has a wrapper as its
\* source or as its target.
C13_WrappersDetached ==
    (/\ Returned("Marshal")
     /\ arg.ConnectSubgraphHeads
     /\ arg.ConnectSubgraphTails
     /\ \A w \in vertices \cap Wrappers : WrapsRooted(w)) =>
        \A e \in EdgesOf(Snapshot) : e[1] \notin Wrappers /\ e[2] \notin Wrappers

\* the iteration over the edge e fails fatally under the options opts
Offending(opts, e) ==
    \/ opts.ConnectSubgraphHeads /\ WrapsMalformed(e[2])
    \/ opts.ConnectSubgraphTails /\ WrapsMalformed(e[1])

\* C14: when Marshal reaches an edge whose wrapper endpoint, the option for
\* it enabled, wraps a subgraph with no root or several, the flattening is
\* aborted: Marshal never returns past such an edge; at the abort no
\* marshaled graph is produced, the edges not yet reached are as they were,
\* and nothing runs afterwards.
C14_MalformedSubgraphAborts ==
    op = "Marshal" =>
        /\ pc = "done" => \A e \in EdgesOf(entry) : ~Offending(arg, e)
        /\ pc = "loop" => \A e \in EdgesOf(entry) \ locals.todo : ~Offending(arg, e)
        /\ pc = "fatal" =>
              /\ result = {}
              /\ err.msg \in {"no roots found", "multiple roots"}
              /\ locals.edge \in locals.todo
              /\ Offending(arg, locals.edge)
              /\ \A e \in locals.todo \ {locals.edge} : e \in EdgesOf(Snapshot)
              /\ \A e \in EdgesOf(Snapshot) \ EdgesOf(entry) :
                    \E d \in (EdgesOf(entry) \ locals.todo) \cup {locals.edge} :
                        e[1] = d[1] \/ e[2] = d[2]
              /\ ~ENABLED (Marshal \/ Return)

\* Marshal aborted at an edge it reached after another, with an edge left
\* to reach
C14_Witness ==
    /\ op = "Marshal"
    /\ pc = "fatal"
    /\ Cardinality(locals.todo) >= 2
    /\ EdgesOf(entry) \ locals.todo # {}

\* C15: Marshal with both options disabled leaves the vertices and the
\* edges as they were at entry, the edges into and out of a wrapper with
\* them, and exports them and the nested graphs' edges unchanged.
C15_NoOptionNoRewiring ==
    (op = "Marshal" /\ ~arg.ConnectSubgraphHeads /\ ~arg.ConnectSubgraphTails) =>
        /\ pc # "fatal"
        /\ Snapshot = entry
        /\ pc = "done" =>
              /\ result.Vertices = entry.vertices
              /\ result.Edges = EdgesOf(entry)
              /\ \A w \in entry.vertices \cap Wrappers :
                    \E g \in result.Subgraphs : g.Name = w /\ g.Edges = SubgraphEdges(w)

\* Marshal without options returned on a graph with an edge into a wrapper
\* and one out of it
C15_Witness ==
    /\ Returned("Marshal")
    /\ ~arg.ConnectSubgraphHeads
    /\ ~arg.ConnectSubgraphTails
    /\ \E e, f \in EdgesOf(Snapshot) : e[2] \in Wrappers /\ f[1] = e[2]

\* ------------------------------------------------------------------------
\* Further claims about the queries and the walks.
\* ------------------------------------------------------------------------

\* C16: Descendants, Ancestors, Root and the five walks never mutate the
\* graph: from the call on, whether it succeeds or fails, the vertices and
\* the edges are those at the call (the visitor not touching the graph).
C16_QueriesLeaveGraph ==
    op \in Walks \cup {"Descendants", "Ancestors", "Root"} =>
        /\ vertices = entry.vertices
        /\ downEdges = entry.downEdges
        /\ upEdges = entry.upEdges

\* a reverse walk failed after it had visited several vertices
C16_Witness ==
    /\ op \in ReverseWalks
    /\ pc = "done"
    /\ err # Nil
    /\ Len(calls) >= 3
    /\ NumEdges >= 3

\* C20: TransitiveReduction only removes edges: at every point of it the
\* vertices are those at entry, every edge is an edge at entry, and every
\* edge removed so far is an edge (u, w) for which the graph at entry had a
\* path from u to w of two or more edges.
C20_ReductionOnlyRemoves ==
    op = "TransitiveReduction" =>
        /\ vertices = entry.vertices
        /\ EdgesOf(Snapshot) \subseteq EdgesOf(entry)
        /\ \A k \in Keys : SetKeys(upEdges[k]) \subseteq SetKeys(entry.upEdges[k])
        /\ \A p \in EdgesOf(entry) \ EdgesOf(Snapshot) : p[2] \in ReachableFar(entry, p[1])

\* TransitiveReduction returned having removed an edge and kept three
C20_Witness ==
    /\ Returned("TransitiveReduction")
    /\ EdgesOf(entry) \ EdgesOf(Snapshot) # {}
    /\ Cardinality(EdgesOf(Snapshot)) >= 3

\* the graph as the walk follows it: for the reverse walks the edges are
\* those of upEdges
WalkGraph == IF op \in ForwardWalks THEN [downEdges |-> downEdges] ELSE [downEdges |-> upEdges]

RECURSIVE Dist(_, _, _, _)
\* the length of the shortest path in g from a key of S to k, d being the
\* distance of S from the start; -1 when there is none
Dist(g, S, k, d) ==
    IF k \in S THEN d
    ELSE LET n == Step(g, S)
         IN  IF n \subseteq S THEN -1 ELSE Dist(g, S \cup n, k, d + 1)

ShortestPath(g, S, k) == Dist(g, S, k, 0)

RECURSIVE PathEnds(_, _, _)
\* the keys at which a path of exactly d edges from a key of S ends
PathEnds(g, S, d) == IF d = 0 THEN S ELSE PathEnds(g, Step(g, S), d - 1)

DepthFirstWalks == Walks \ {"BreadthFirstWalk"}

\* C18, as claimed: in the depth-first walks the depth passed with a vertex
\* is the length of the shortest path, in the walk's direction, from the
\* start set to it.
C18_DepthIsShortestPath ==
    op \in DepthFirstWalks =>
        LET g == WalkGraph
            S == StartKeys
        IN  \A i \in 1..Len(calls) :
                calls[i].Depth = ShortestPath(g, S, hashcode(calls[i].Vertex))

\* C18, amended: in the depth-first walks the depth passed with a vertex is
\* the length of a path, in the walk's direction, from a start vertex to it
\* (so never less than the length of the shortest one); the first vertex
\* visited is a start vertex at depth 0.
C18_DepthIsPathLength ==
    op \in DepthFirstWalks =>
        LET g == WalkGraph
            S == StartKeys
        IN  /\ \A i \in 1..Len(calls) :
                  hashcode(calls[i].Vertex) \in PathEnds(g, S, calls[i].Depth)
            /\ Len(calls) >= 1 =>
                  (calls[1].Depth = 0 /\ hashcode(calls[1].Vertex) \in S)

\* a forward and a reverse depth-first walk each can return having reported
\* a vertex deeper than its shortest path: here one has
C18_Witness ==
    /\ op \in DepthFirstWalks
    /\ pc = "done"
    /\ err = Nil
    /\ \E i \in 1..Len(calls) :
          calls[i].Depth > ShortestPath(WalkGraph, StartKeys, hashcode(calls[i].Vertex))

\* C19: in BreadthFirstWalk the depth passed with a vertex is the length of
\* the shortest forward path from the start set to it, 0 for the start
\* vertices.
C19_BreadthFirstDepthIsShortestPath ==
    op = "BreadthFirstWalk" =>
        LET S == StartKeys
        IN  \A i \in 1..Len(calls) :
                calls[i].Depth = ShortestPath(Snapshot, S, hashcode(calls[i].Vertex))

\* BreadthFirstWalk returned having visited a vertex that a longer path
\* reaches as well as the shortest
C19_Witness ==
    /\ Returned("BreadthFirstWalk")
    /\ err = Nil
    /\ \E i \in 1..Len(calls) :
          LET k == hashcode(calls[i].Vertex)
          IN  /\ calls[i].Depth >= 1
              /\ k \in PathEnds(Snapshot, StartKeys, calls[i].Depth + 1)

\* the graph holds a cycle
Cyclic == \E k \in Keys : k \in Reachable(Snapshot, k)

\* C17: every walk, and with it Descendants, Ancestors and
\* TransitiveReduction, terminates on every graph, cycles or not: once
\* called it returns.
C17_WalksTerminate == Running ~> (pc = "done")

\* a walk returned without error on a graph with a cycle of two or more
\* vertices, having visited two vertices at least
C17_Witness ==
    /\ op \in Walks
    /\ pc = "done"
    /\ err = Nil
    /\ \E k \in Keys : k \in ReachableFar(Snapshot, k) /\ k \notin Step(Snapshot, {k})
    /\ Len(calls) >= 2

====
